---- MODULE Spec2Model ----
(***************************************************************************)
(* Material Point Method stepper of mpm-js: Grid (src/src/mpm/Grid.ts) and *)
(* MPMSystem (src/src/mpm/MPMSystem.ts).                                   *)
(*                                                                         *)
(* Numbers.  The program computes in IEEE doubles; the model computes in   *)
(* fixed point, every quantity an integer count of a unit:                 *)
(*   lengths and times                         : 1/One                     *)
(*   velocities and accelerations              : 1/VOne                    *)
(*   the matrix D (length * length)            : 1/(One*One)               *)
(*   the matrix B (velocity * length)          : 1/(VOne*One)              *)
(*   the inverse of D                          : 1                         *)
(*   kernel values N(x)                        : 1/NDen(h)                 *)
(*   weights                                   : 1/WDen(g)                 *)
(*   particle mass                             : 1                         *)
(*   cell mass                                 : 1/WDen(g)                 *)
(*   cell momentum and force                   : 1/(VOne*WDen(g))          *)
(* Sums, differences, comparisons, floor, min and max are exact.  A        *)
(* product or quotient that has to come back to its unit is rounded to the *)
(* nearest unit (RoundDiv, MulDiv), as a double rounds to the nearest      *)
(* double.                                                                 *)
(* Kernel values and weights are exact: positions are whole units and the  *)
(* kernel is a quadratic in them.  NaN and the infinities are not numbers  *)
(* of the model.                                                           *)
(***************************************************************************)
EXTENDS Integers, Sequences, FiniteSets, TLC

VARIABLES grid, particles, lastCall, nCalls, probe

vars == <<grid, particles, lastCall, nCalls, probe>>

(***************************************************************************)
(* Units and bounds                                                        *)
(***************************************************************************)

\* The number 1.0 in length units: one unit is 0.025.
One == 40

\* The number 1.0 in velocity units.
VOne == 8 * One

\* The constructor's cellSize, 0.1, in length units.
cellSize == 4

\* Cells per side of the square grid (64 in the program).
GRID_SIZE == 8

\* HALF_GRID_SIZE = GRID_SIZE / 2, in units of 1/One.
HALF_GRID_SIZE == (GRID_SIZE * One) \div 2

\* GRAVITY = (0, -9.8, 0).
GRAVITY == <<0, -((98 * VOne) \div 10), 0>>

\* Calls the driver makes in one run.
MaxCalls == 4

\* Particles the driver seeds in one run.
MaxParticles == 8

\* Cells per side of the grids the kernel functions are applied to.
MaxSide == 3

(***************************************************************************)
(* Arithmetic                                                              *)
(***************************************************************************)

Abs(a) == IF a < 0 THEN -a ELSE a

Max(a, b) == IF a >= b THEN a ELSE b

Min(a, b) == IF a <= b THEN a ELSE b

\* a / d rounded to the nearest integer (d > 0), halves upwards.
RoundDiv(a, d) == (2 * a + d) \div (2 * d)

\* a * w / d rounded to the nearest integer (d > 0, 0 <= w), computed
\* without the product a * w.
MulDiv(a, w, d) == (a \div d) * w + RoundDiv((a % d) * w, d)

\* floor(a / d) for d > 0.
FloorDiv(a, d) == a \div d

(***************************************************************************)
(* THREE.Vector3: <<x, y, z>>                                              *)
(***************************************************************************)

ZeroVector3 == <<0, 0, 0>>

VAdd(a, b) == <<a[1] + b[1], a[2] + b[2], a[3] + b[3]>>

VSub(a, b) == <<a[1] - b[1], a[2] - b[2], a[3] - b[3]>>

VMul(a, b) == <<a[1] * b[1], a[2] * b[2], a[3] * b[3]>>

VScale(a, s) == <<a[1] * s, a[2] * s, a[3] * s>>

VRoundDiv(a, d) == <<RoundDiv(a[1], d), RoundDiv(a[2], d), RoundDiv(a[3], d)>>

VMulDiv(a, w, d) == <<MulDiv(a[1], w, d), MulDiv(a[2], w, d), MulDiv(a[3], w, d)>>

VFloorDiv(a, b) == <<FloorDiv(a[1], b[1]), FloorDiv(a[2], b[2]), FloorDiv(a[3], b[3])>>

VMax(a, b) == <<Max(a[1], b[1]), Max(a[2], b[2]), Max(a[3], b[3])>>

VMin(a, b) == <<Min(a[1], b[1]), Min(a[2], b[2]), Min(a[3], b[3])>>

(***************************************************************************)
(* THREE.Matrix3: the nine elements in the library's storage order, column *)
(* after column: <<n11, n21, n31, n12, n22, n32, n13, n23, n33>>.          *)
(***************************************************************************)

\* Matrix3.set and the constructor take their arguments row after row.
Matrix3(n11, n12, n13, n21, n22, n23, n31, n32, n33) ==
    <<n11, n21, n31, n12, n22, n32, n13, n23, n33>>

ZeroMatrix3 == Matrix3(0, 0, 0, 0, 0, 0, 0, 0, 0)

\* Entry of row r, column c (1..3).
MAt(m, r, c) == m[r + 3 * (c - 1)]

MMulDiv(m, w, d) ==
    <<MulDiv(m[1], w, d), MulDiv(m[2], w, d), MulDiv(m[3], w, d),
      MulDiv(m[4], w, d), MulDiv(m[5], w, d), MulDiv(m[6], w, d),
      MulDiv(m[7], w, d), MulDiv(m[8], w, d), MulDiv(m[9], w, d)>>

\* Matrix3.multiply: a . b
MMultiply(a, b) ==
    Matrix3(
        MAt(a,1,1)*MAt(b,1,1) + MAt(a,1,2)*MAt(b,2,1) + MAt(a,1,3)*MAt(b,3,1),
        MAt(a,1,1)*MAt(b,1,2) + MAt(a,1,2)*MAt(b,2,2) + MAt(a,1,3)*MAt(b,3,2),
        MAt(a,1,1)*MAt(b,1,3) + MAt(a,1,2)*MAt(b,2,3) + MAt(a,1,3)*MAt(b,3,3),
        MAt(a,2,1)*MAt(b,1,1) + MAt(a,2,2)*MAt(b,2,1) + MAt(a,2,3)*MAt(b,3,1),
        MAt(a,2,1)*MAt(b,1,2) + MAt(a,2,2)*MAt(b,2,2) + MAt(a,2,3)*MAt(b,3,2),
        MAt(a,2,1)*MAt(b,1,3) + MAt(a,2,2)*MAt(b,2,3) + MAt(a,2,3)*MAt(b,3,3),
        MAt(a,3,1)*MAt(b,1,1) + MAt(a,3,2)*MAt(b,2,1) + MAt(a,3,3)*MAt(b,3,1),
        MAt(a,3,1)*MAt(b,1,2) + MAt(a,3,2)*MAt(b,2,2) + MAt(a,3,3)*MAt(b,3,2),
        MAt(a,3,1)*MAt(b,1,3) + MAt(a,3,2)*MAt(b,2,3) + MAt(a,3,3)*MAt(b,3,3))

\* Vector3.applyMatrix3: m . v
ApplyMatrix3(v, m) ==
    << m[1] * v[1] + m[4] * v[2] + m[7] * v[3],
       m[2] * v[1] + m[5] * v[2] + m[8] * v[3],
       m[3] * v[1] + m[6] * v[2] + m[9] * v[3] >>

\* Matrix3.invert of a matrix in units 1/(One*One), the inverse in units 1:
\* the adjugate over the determinant, and the zero matrix when the
\* determinant is 0.
MInvert(m) ==
    LET n11 == m[1]  n21 == m[2]  n31 == m[3]
        n12 == m[4]  n22 == m[5]  n32 == m[6]
        n13 == m[7]  n23 == m[8]  n33 == m[9]
        t11 == n33 * n22 - n32 * n23
        t12 == n32 * n13 - n33 * n12
        t13 == n23 * n12 - n22 * n13
        det == n11 * t11 + n21 * t12 + n31 * t13
        Q(t) == IF det > 0 THEN RoundDiv(One * One * t, det)
                           ELSE RoundDiv(One * One * (-t), -det)
    IN  IF det = 0
        THEN ZeroMatrix3
        ELSE << Q(t11),
                Q(n31 * n23 - n33 * n21),
                Q(n32 * n21 - n31 * n22),
                Q(t12),
                Q(n33 * n11 - n31 * n13),
                Q(n31 * n12 - n32 * n11),
                Q(t13),
                Q(n21 * n13 - n23 * n11),
                Q(n22 * n11 - n21 * n12) >>

(***************************************************************************)
(* Cell                                                                    *)
(***************************************************************************)

\* new Cell(), Cell.clear() and Cell.reset() all leave this value.
Cell == [mass |-> 0, mv |-> ZeroVector3, vel |-> ZeroVector3, force |-> ZeroVector3]

(***************************************************************************)
(* Grid: g = [size, cellSize, leftBottomBackPos, data]; data[i] is the     *)
(* cell of flat index i, 0 <= i < size.x * size.y * size.z.                *)
(***************************************************************************)

DataLength(g) == g.size[1] * g.size[2] * g.size[3]

\* Grid constructor with _initData.
NewGrid(size, cs, leftBottomBackPos) ==
    [size |-> size, cellSize |-> cs, leftBottomBackPos |-> leftBottomBackPos,
     data |-> [i \in 0..(size[1] * size[2] * size[3] - 1) |-> Cell]]

is2D(g) == g.size[3] = 1

\* cellDimensions with the cell size on the z axis of a 2D grid too.
cellDimensionsCubic(g) == <<g.cellSize, g.cellSize, g.cellSize>>

cellDimensions(g) == <<g.cellSize, g.cellSize, IF is2D(g) THEN One ELSE g.cellSize>>

getH(g) == cellDimensions(g)

gridDimensions(g) == VMul(cellDimensions(g), g.size)

\* THREE.Box3 as [min, max].
getBounds(g) ==
    [min |-> g.leftBottomBackPos, max |-> VAdd(gridDimensions(g), g.leftBottomBackPos)]

toFlatIndex(g, xIdx, yIdx, zIdx) ==
    xIdx + yIdx * g.size[1] + zIdx * g.size[1] * g.size[2]

resetCells(g) == [g EXCEPT !.data = [i \in DOMAIN g.data |-> Cell]]

isValidCellIndex(g, xIdx, yIdx, zIdx) ==
    LET flatIdx == toFlatIndex(g, xIdx, yIdx, zIdx)
    IN  flatIdx >= 0 /\ flatIdx < DataLength(g)

\* (idx + 0.5) * cellSize + leftBottomBackPos, on all three axes.
cellIndexToPosition(g, xIdx, yIdx, zIdx) ==
    VAdd(VRoundDiv(VScale(<<2 * xIdx + 1, 2 * yIdx + 1, 2 * zIdx + 1>>, g.cellSize), 2),
         g.leftBottomBackPos)

cellPositionToIndex(g, pos) ==
    VFloorDiv(VSub(pos, g.leftBottomBackPos), cellDimensions(g))

\* getNQuadratic without the factor 0.5 of its outer branch.
getNQuadraticNoHalf(k, h) ==
    LET x == Abs(k)
    IN  IF 2 * x < h THEN 6 * h * h - 8 * x * x
        ELSE IF 2 * x < 3 * h THEN 2 * (3 * h - 2 * x) * (3 * h - 2 * x)
        ELSE 0

\* Kernel values are counted in 1/NDen(h), for an argument x = k / h.
NDen(h) == 8 * h * h

\* getNQuadratic(k / h), in units 1/NDen(h).
getNQuadratic(k, h) ==
    LET x == Abs(k)
    IN  IF 2 * x < h THEN 6 * h * h - 8 * x * x
        ELSE IF 2 * x < 3 * h THEN (3 * h - 2 * x) * (3 * h - 2 * x)
        ELSE 0

\* getNQuadraticDerivative(k / h), in units 1/(2h).
getNQuadraticDerivative(k, h) ==
    LET x == Abs(k)
    IN  IF 2 * x < h THEN -4 * x
        ELSE IF 2 * x < 3 * h THEN (IF x > 0 THEN 2 * x - 3 * h ELSE -(2 * x - 3 * h))
        ELSE 0

\* Weights of grid g are counted in 1/WDen(g).
WDen(g) ==
    NDen(g.cellSize) * NDen(g.cellSize) * (IF is2D(g) THEN 1 ELSE NDen(g.cellSize))

getWeight(g, pos, delta) ==
    LET gridIndex == VAdd(cellPositionToIndex(g, pos), delta)
        gridPos == cellIndexToPosition(g, gridIndex[1], gridIndex[2], gridIndex[3])
        dis == VSub(pos, gridPos)
        H == getH(g)
    IN  IF ~isValidCellIndex(g, gridIndex[1], gridIndex[2], gridIndex[3])
        THEN 0
        ELSE getNQuadratic(dis[1], H[1]) * getNQuadratic(dis[2], H[2])
                * (IF is2D(g) THEN 1 ELSE getNQuadratic(dis[3], H[3]))

\* H * H * 0.25 on the diagonal, in units 1/(One*One).
getDQuadratic(g) ==
    LET H == getH(g)
        v == VRoundDiv(VMul(H, H), 4)
    IN  Matrix3(v[1], 0, 0,
                0, v[2], 0,
                0, 0, v[3])

(***************************************************************************)
(* MPMSystem                                                               *)
(***************************************************************************)

\* new Particle(active, mass, pos): vel and B start at zero.
Particle(active, mass, pos) ==
    [active |-> active, mass |-> mass, pos |-> pos, vel |-> ZeroVector3, B |-> ZeroMatrix3]

\* The grid the MPMSystem constructor builds.
SystemGrid ==
    NewGrid(<<GRID_SIZE, GRID_SIZE, 1>>, cellSize,
            VRoundDiv(VScale(<<-HALF_GRID_SIZE, -HALF_GRID_SIZE, 0>>, cellSize), One))

\* The console.assert conditions of addParticles.  A failed console.assert
\* logs its message and returns: the call goes on.
addParticlesAsserts(min, max, size, mass) ==
    LET boxDim == VSub(max, min)
    IN  /\ min[1] <= max[1] /\ min[2] <= max[2] /\ min[3] <= max[3]
        /\ size > 0
        /\ mass > 0
        /\ boxDim[1] > 0 /\ boxDim[2] > 0 /\ boxDim[3] >= 0
        /\ size <= boxDim[1] /\ size <= boxDim[2] /\ (size <= boxDim[3] \/ boxDim[3] = 0)

\* floor(a / size) for size # 0.
FloorQuot(a, size) == IF size > 0 THEN a \div size ELSE (-a) \div (-size)

\* The particles addParticles pushes, in the order of its loops (size # 0).
seededParticles(min, max, size, mass) ==
    LET boxDim == VSub(max, min)
        halfSize == RoundDiv(size, 2)
        nx == FloorQuot(boxDim[1], size)
        ny == FloorQuot(boxDim[2], size)
        nz == IF boxDim[3] = 0 THEN 1 ELSE FloorQuot(boxDim[3], size)
        count == IF nx > 0 /\ ny > 0 /\ nz > 0 THEN nx * ny * nz ELSE 0
    IN  [n \in 1..count |->
            LET x == (n - 1) \div (ny * nz)
                y == ((n - 1) \div nz) % ny
                z == (n - 1) % nz
            IN  Particle(TRUE, mass,
                         << min[1] + x * size + halfSize,
                            min[2] + y * size + halfSize,
                            min[3] + z * size + halfSize >>)]

\* The neighbour offsets in the order of the loops over gx, gy, gz.
Deltas(g) ==
    LET nz == IF is2D(g) THEN 1 ELSE 3
        gzInit == IF is2D(g) THEN 0 ELSE -1
    IN  [k \in 1..(9 * nz) |->
            << ((k - 1) \div (3 * nz)) - 1,
               (((k - 1) \div nz) % 3) - 1,
               ((k - 1) % nz) + gzInit >>]

\* What one pass of the inner loop of _particleToGrid adds, and to which
\* cell: particle i of ps, offset k of Deltas(g).
p2gTerm(g, ps, i, k) ==
    LET p == ps[i]
        Dinv == MInvert(getDQuadratic(g))
        apic == MMultiply(p.B, Dinv)
        gridIdx == cellPositionToIndex(g, p.pos)
        idx == VAdd(gridIdx, Deltas(g)[k])
        weight == getWeight(g, p.pos, Deltas(g)[k])
        gridPos == cellIndexToPosition(g, idx[1], idx[2], idx[3])
        affine == VRoundDiv(ApplyMatrix3(VSub(gridPos, p.pos), apic), One * One)
    IN  IF ~isValidCellIndex(g, idx[1], idx[2], idx[3])
        THEN [valid |-> FALSE, flat |-> -1, mass |-> 0, mv |-> ZeroVector3]
        ELSE [valid |-> TRUE,
              flat |-> toFlatIndex(g, idx[1], idx[2], idx[3]),
              mass |-> weight * p.mass,
              mv |-> VScale(VAdd(affine, p.vel), weight * p.mass)]

RECURSIVE sumTerms(_, _)
\* The sum of the terms numbered in S: [mass, mv].
sumTerms(terms, S) ==
    IF S = {}
    THEN [mass |-> 0, mv |-> ZeroVector3]
    ELSE LET n == CHOOSE m \in S : TRUE
             rest == sumTerms(terms, S \ {n})
         IN  [mass |-> rest.mass + terms[n].mass, mv |-> VAdd(rest.mv, terms[n].mv)]

\* _particleToGrid: the grid after every particle of ps has scattered.  The
\* additions into one cell are exact, so their order does not show.
particleToGrid(g, ps) ==
    LET nd == Len(Deltas(g))
        terms == [n \in 1..(Len(ps) * nd) |->
                    p2gTerm(g, ps, ((n - 1) \div nd) + 1, ((n - 1) % nd) + 1)]
    IN  [g EXCEPT !.data =
            [f \in DOMAIN g.data |->
                LET s == sumTerms(terms, {n \in DOMAIN terms : terms[n].valid /\ terms[n].flat = f})
                IN  [g.data[f] EXCEPT !.mass = @ + s.mass, !.mv = VAdd(@, s.mv)]]]

\* updateCell with a boundary layer one cell thick.
updateCellThinLayer(g, cell, x, y, z, dt) ==
    IF cell.mass <= 0
    THEN Cell
    ELSE LET v0 == VRoundDiv(cell.mv, cell.mass)
             acc == VAdd(VRoundDiv(cell.force, cell.mass), GRAVITY)
             v1 == VAdd(v0, VRoundDiv(VScale(acc, dt), One))
             vx == IF x < 1 \/ x >= g.size[1] - 1 THEN 0 ELSE v1[1]
             vy == IF y < 1 \/ y >= g.size[2] - 1 THEN 0 ELSE v1[2]
             vz == IF ~is2D(g) /\ (z < 1 \/ z >= g.size[3] - 1) THEN 0 ELSE v1[3]
         IN  [cell EXCEPT !.vel = <<vx, vy, vz>>]

\* The body of the loops of _updateGrid for the cell at (x, y, z).
updateCell(g, cell, x, y, z, dt) ==
    IF cell.mass <= 0
    THEN Cell
    ELSE LET v0 == VRoundDiv(cell.mv, cell.mass)
             acc == VAdd(VRoundDiv(cell.force, cell.mass), GRAVITY)
             v1 == VAdd(v0, VRoundDiv(VScale(acc, dt), One))
             vx == IF x < 2 \/ x >= g.size[1] - 2 THEN 0 ELSE v1[1]
             vy == IF y < 2 \/ y >= g.size[2] - 2 THEN 0 ELSE v1[2]
             vz == IF ~is2D(g) /\ (z < 2 \/ z >= g.size[3] - 2) THEN 0 ELSE v1[3]
         IN  [cell EXCEPT !.vel = <<vx, vy, vz>>]

\* _updateGrid
updateGrid(g, dt) ==
    [g EXCEPT !.data =
        [f \in DOMAIN g.data |->
            updateCell(g, g.data[f],
                       f % g.size[1],
                       (f \div g.size[1]) % g.size[2],
                       f \div (g.size[1] * g.size[2]),
                       dt)]]

outerMulVec3(v1, v2) ==
    Matrix3(v1[1] * v2[1], v1[1] * v2[2], v1[1] * v2[3],
            v1[2] * v2[1], v1[2] * v2[2], v1[2] * v2[3],
            v1[3] * v2[1], v1[3] * v2[2], v1[3] * v2[3])

\* m1 after addInPlaceMatrix3(m1, m2): the element-wise sums, handed to
\* Matrix3.set in storage order.
addInPlaceMatrix3(m1, m2) ==
    Matrix3(m1[1] + m2[1], m1[2] + m2[2], m1[3] + m2[3],
            m1[4] + m2[4], m1[5] + m2[5], m1[6] + m2[6],
            m1[7] + m2[7], m1[8] + m2[8], m1[9] + m2[9])

\* One pass of the inner loop of _gridToParticle: acc = [vel, B] of the
\* particle at pos, after the neighbour at offset delta.
g2pNeighbor(g, pos, acc, delta) ==
    LET idx == VAdd(cellPositionToIndex(g, pos), delta)
        weight == getWeight(g, pos, delta)
        gridPos == cellIndexToPosition(g, idx[1], idx[2], idx[3])
        \* cellVel after cellVel.multiplyScalar(weight), which scales it in place
        cellVel == VMulDiv(g.data[toFlatIndex(g, idx[1], idx[2], idx[3])].vel, weight, WDen(g))
        m == MMulDiv(outerMulVec3(cellVel, VSub(gridPos, pos)), weight, WDen(g))
    IN  IF ~isValidCellIndex(g, idx[1], idx[2], idx[3])
        THEN acc
        ELSE [vel |-> VAdd(acc.vel, cellVel), B |-> addInPlaceMatrix3(acc.B, m)]

RECURSIVE g2pGather(_, _, _)
\* [vel, B] of the particle at pos after the first k neighbours.
g2pGather(g, pos, k) ==
    IF k = 0
    THEN [vel |-> ZeroVector3, B |-> ZeroMatrix3]
    ELSE g2pNeighbor(g, pos, g2pGather(g, pos, k - 1), Deltas(g)[k])

\* g2pParticle without the clamp into the grid's bounds.
g2pParticleUnclamped(g, p, dt) ==
    LET acc == g2pGather(g, p.pos, Len(Deltas(g)))
    IN  [p EXCEPT !.vel = acc.vel,
                  !.B = acc.B,
                  !.pos = VAdd(p.pos, VRoundDiv(VScale(acc.vel, dt), VOne))]

\* The body of the loop of _gridToParticle for particle p.
g2pParticle(g, p, dt) ==
    LET acc == g2pGather(g, p.pos, Len(Deltas(g)))
        gridBounds == getBounds(g)
        moved == VAdd(p.pos, VRoundDiv(VScale(acc.vel, dt), VOne))
    IN  [p EXCEPT !.vel = acc.vel,
                  !.B = acc.B,
                  !.pos = VMin(VMax(moved, gridBounds.min), gridBounds.max)]

\* gridToParticle writing the particles back in reverse order.
gridToParticleReversed(g, ps, dt) ==
    [i \in 1..Len(ps) |-> g2pParticle(g, ps[Len(ps) + 1 - i], dt)]

\* _gridToParticle
gridToParticle(g, ps, dt) == [i \in 1..Len(ps) |-> g2pParticle(g, ps[i], dt)]

(***************************************************************************)
(* The driver: new MPMSystem(), then addParticles and step calls.          *)
(***************************************************************************)

\* addParticles(min = (0,0,0), max = (1,1,0), spacing 0.5, mass 1)
FlatBox == [min |-> <<0, 0, 0>>, max |-> <<One, One, 0>>, size |-> One \div 2, mass |-> 1]

\* The boxes the driver seeds: [min, max, size, mass].
AddInputs ==
    << \* two particles side by side above the middle of the grid, spacing 0.15
       [min |-> <<-6, 0, 0>>, max |-> <<6, 6, 0>>, size |-> 6, mass |-> 1],
       FlatBox,
       \* one heavier particle in the middle of the grid's lower left cell
       [min |-> SystemGrid.leftBottomBackPos,
        max |-> VAdd(SystemGrid.leftBottomBackPos, <<cellSize, cellSize, 0>>),
        size |-> cellSize, mass |-> 2],
       \* mass 0
       [min |-> <<-cellSize, 0, 0>>, max |-> <<0, cellSize, 0>>, size |-> cellSize, mass |-> 0],
       \* min.x > max.x
       [min |-> <<cellSize, 0, 0>>, max |-> <<0, cellSize, 0>>, size |-> cellSize, mass |-> 1],
       \* one particle of mass -3 between and just below the two of the first input
       [min |-> <<-2, 0, 0>>, max |-> <<2, cellSize, 0>>, size |-> cellSize, mass |-> -3] >>

\* The time steps the driver passes: -0.125, 0, 0.125, 0.25.
DtValues == {-(One \div 8), 0, One \div 8, One \div 4}

NoProbe == [fn |-> "none", arg |-> 0, out |-> 0]

Init ==
    /\ grid = SystemGrid
    /\ particles = <<>>
    /\ lastCall = [op |-> "new", dt |-> 0, input |-> 0]
    /\ nCalls = 0
    /\ probe = NoProbe

\* addParticles(min, max, size, mass) with the input numbered n.
addParticles(n) ==
    LET in == AddInputs[n]
        new == seededParticles(in.min, in.max, in.size, in.mass)
    IN  /\ nCalls < MaxCalls
        /\ Len(particles) + Len(new) <= MaxParticles
        /\ particles' = particles \o new
        /\ lastCall' = [op |-> "addParticles", dt |-> 0, input |-> n]
        /\ nCalls' = nCalls + 1
        /\ UNCHANGED <<grid, probe>>

\* stepResult returning early for dt < 0 only.
stepResultZeroRuns(g, ps, dt) ==
    IF dt < 0
    THEN [grid |-> g, particles |-> ps]
    ELSE LET g3 == updateGrid(particleToGrid(resetCells(g), ps), dt)
         IN  [grid |-> g3, particles |-> gridToParticle(g3, ps, dt)]

\* The grid and the particles after step(dt).
stepResult(g, ps, dt) ==
    IF dt <= 0
    THEN [grid |-> g, particles |-> ps]
    ELSE LET g3 == updateGrid(particleToGrid(resetCells(g), ps), dt)
         IN  [grid |-> g3, particles |-> gridToParticle(g3, ps, dt)]

\* step(dt)
step(dt) ==
    LET r == stepResult(grid, particles, dt)
    IN  /\ nCalls < MaxCalls
        /\ grid' = r.grid
        /\ particles' = r.particles
        /\ lastCall' = [op |-> "step", dt |-> dt, input |-> 0]
        /\ nCalls' = nCalls + 1
        /\ UNCHANGED probe

Next ==
    \/ \E n \in 1..Len(AddInputs) : addParticles(n)
    \/ \E dt \in DtValues : step(dt)

Spec == Init /\ [][Next]_vars

(***************************************************************************)
(* The Grid class on its own: grids of any shape, and its pure functions   *)
(* applied to them.                                                        *)
(***************************************************************************)

\* Cell sizes 0.05, 0.1 and 0.15.
CellSizes == {2, 4, 6}

Grids ==
    { NewGrid(<<sx, sy, sz>>, cs, ZeroVector3) :
        sx \in 1..MaxSide, sy \in 1..MaxSide, sz \in 1..MaxSide, cs \in CellSizes }

InitGrid ==
    /\ grid \in Grids
    /\ particles = <<>>
    /\ lastCall = [op |-> "new", dt |-> 0, input |-> 0]
    /\ nCalls = 0
    /\ probe = NoProbe

\* grid.getNQuadratic(k / cellSize)
applyNQuadratic(k) ==
    /\ probe' = [fn |-> "getNQuadratic", arg |-> k, out |-> getNQuadratic(k, grid.cellSize)]
    /\ UNCHANGED <<grid, particles, lastCall, nCalls>>

\* grid.getNQuadraticDerivative(k / cellSize)
applyNQuadraticDerivative(k) ==
    /\ probe' = [fn |-> "getNQuadraticDerivative", arg |-> k,
                 out |-> getNQuadraticDerivative(k, grid.cellSize)]
    /\ UNCHANGED <<grid, particles, lastCall, nCalls>>

\* grid.getDQuadratic()
applyDQuadratic ==
    /\ probe' = [fn |-> "getDQuadratic", arg |-> 0, out |-> getDQuadratic(grid)]
    /\ UNCHANGED <<grid, particles, lastCall, nCalls>>

NextGrid ==
    \/ \E k \in (-2 * grid.cellSize)..(2 * grid.cellSize) : applyNQuadratic(k)
    \/ \E k \in (-2 * grid.cellSize)..(2 * grid.cellSize) : applyNQuadraticDerivative(k)
    \/ applyDQuadratic

SpecGrid == InitGrid /\ [][NextGrid]_vars

(***************************************************************************)
(* Properties                                                              *)
(***************************************************************************)

InBounds(g, pos) ==
    LET b == getBounds(g)
    IN  \A a \in 1..3 : b.min[a] <= pos[a] /\ pos[a] <= b.max[a]

AllInBounds == \A i \in DOMAIN particles : InBounds(grid, particles[i].pos)

\* C1 as stated: after any sequence of step(dt) calls, whatever the dt and
\* whatever was seeded, every particle's position lies inside the grid's
\* bounding box.
C1_InBoundsAfterAnySteps == lastCall.op = "step" => AllInBounds

\* C1, amended: a step(dt) call with dt > 0 leaves every particle's position
\* inside the grid's bounding box, and a step(dt) call made with every
\* particle inside the box leaves every particle inside it.
C1_StepContainment ==
    [][ (lastCall'.op = "step" /\ (lastCall'.dt > 0 \/ AllInBounds))
            => \A i \in DOMAIN particles' : InBounds(grid', particles'[i].pos) ]_vars

\* A positive step has just clamped a particle that was seeded outside the
\* box to its upper x bound, and one that fell to its lower y bound.
C1_Witness ==
    /\ lastCall.op = "step" /\ lastCall.dt > 0
    /\ \E i \in DOMAIN particles : particles[i].pos[1] = getBounds(grid).max[1]
    /\ \E i \in DOMAIN particles :
          particles[i].pos[2] = getBounds(grid).min[2] /\ particles[i].vel[2] < 0

\* C2: step(dt) with dt <= 0 changes no field of any particle and no field
\* of any cell, whatever state it is called in.
C2_NonPositiveDtNoOp ==
    [][ (lastCall'.op = "step" /\ lastCall'.dt <= 0)
            => (particles' = particles /\ grid' = grid) ]_vars

\* step(dt <= 0) has returned in a state an earlier positive step left:
\* a moving particle, a cell with mass and velocity.
C2_Witness ==
    /\ lastCall.op = "step" /\ lastCall.dt <= 0
    /\ \E i \in DOMAIN particles : particles[i].vel # ZeroVector3 /\ particles[i].B # ZeroMatrix3
    /\ \E f \in DOMAIN grid.data : grid.data[f].mass > 0 /\ grid.data[f].vel # ZeroVector3

\* addParticles(min, max, size, mass) of the box b has just returned, and it
\* was the first call on the system.
SeededFirst(b) ==
    lastCall.op = "addParticles" /\ nCalls = 1 /\ AddInputs[lastCall.input] = b

\* C3: addParticles(min = (0,0,0), max = (1,1,0), spacing 0.5, mass 1) on an
\* empty store yields exactly four particles, at (0.25,0.25,0),
\* (0.25,0.75,0), (0.75,0.25,0) and (0.75,0.75,0), each of mass 1.
C3_FlatBoxLattice ==
    SeededFirst(FlatBox) =>
        /\ Len(particles) = 4
        /\ { particles[i].pos : i \in DOMAIN particles }
             = { <<One \div 4, One \div 4, 0>>, <<One \div 4, (3 * One) \div 4, 0>>,
                 <<(3 * One) \div 4, One \div 4, 0>>, <<(3 * One) \div 4, (3 * One) \div 4, 0>> }
        /\ \A i \in DOMAIN particles : particles[i].mass = 1

\* C4: an addParticles call that violates a precondition adds no particle
\* and leaves the particle store as it was, so that every particle of the
\* store has mass > 0 in every reachable state.
C4_PreconditionsFatal ==
    [][ /\ (lastCall'.op = "addParticles"
              /\ ~addParticlesAsserts(AddInputs[lastCall'.input].min, AddInputs[lastCall'.input].max,
                                      AddInputs[lastCall'.input].size, AddInputs[lastCall'.input].mass))
            => particles' = particles
        /\ \A i \in DOMAIN particles' : particles'[i].mass > 0 ]_vars

\* C5: getNQuadratic is even, N(x) = N(-x), and getNQuadraticDerivative is
\* odd, N'(x) = -N'(-x), for every x.
C5_KernelSymmetry ==
    /\ probe.fn = "getNQuadratic" => probe.out = getNQuadratic(-probe.arg, grid.cellSize)
    /\ probe.fn = "getNQuadraticDerivative"
          => probe.out = -getNQuadraticDerivative(-probe.arg, grid.cellSize)

\* The lattice coordinates idx name a cell of g on every axis.
InRange(g, idx) == \A a \in 1..3 : 0 <= idx[a] /\ idx[a] < g.size[a]

\* pos is at least two cells away from every boundary of g; on a 2D grid,
\* from every x and y boundary, and inside its one layer of cells on z.
InSafeInterior(g, pos) ==
    LET b == getBounds(g)
        H == getH(g)
    IN  /\ \A a \in 1..2 : pos[a] - b.min[a] >= 2 * H[a] /\ b.max[a] - pos[a] >= 2 * H[a]
        /\ IF is2D(g)
           THEN cellPositionToIndex(g, pos)[3] = 0
           ELSE pos[3] - b.min[3] >= 2 * H[3] /\ b.max[3] - pos[3] >= 2 * H[3]

RECURSIVE SumOver(_, _, _)
\* f[lo] + ... + f[hi]
SumOver(f, lo, hi) ==
    IF lo > hi THEN 0
    ELSE IF lo = hi THEN f[lo]
    ELSE SumOver(f, lo, (lo + hi) \div 2) + SumOver(f, (lo + hi) \div 2 + 1, hi)

\* C6: when every particle lies at least two cells from every grid boundary,
\* the cell masses after resetCells and one _particleToGrid pass add up to
\* the particles' total mass, and the weights of each particle's neighbour
\* offsets add up to exactly 1.
C6_InteriorMassTransfer ==
    (\A i \in DOMAIN particles : InSafeInterior(grid, particles[i].pos)) =>
        LET g2 == particleToGrid(resetCells(grid), particles)
            D == Deltas(grid)
        IN  /\ SumOver([f \in DOMAIN g2.data |-> g2.data[f].mass], 0, DataLength(g2) - 1)
                 = WDen(grid) * SumOver([i \in DOMAIN particles |-> particles[i].mass],
                                        1, Len(particles))
            /\ \A i \in DOMAIN particles :
                 SumOver([k \in DOMAIN D |-> getWeight(grid, particles[i].pos, D[k])], 1, Len(D))
                   = WDen(grid)

\* Two or more particles, all in the safe interior, that a step has moved
\* off the places they were seeded at.
C6_Witness ==
    /\ Len(particles) >= 2
    /\ \A i \in DOMAIN particles :
          InSafeInterior(grid, particles[i].pos) /\ particles[i].mass > 0
                                                /\ particles[i].vel # ZeroVector3

\* C7: no step(dt) call changes the number of particles, their order or any
\* particle's mass; addParticles only appends to the particle sequence.
C7_ParticleIdentityStable ==
    [][ /\ lastCall'.op = "step" =>
              /\ Len(particles') = Len(particles)
              /\ \A i \in DOMAIN particles :
                    /\ particles'[i].mass = particles[i].mass
                    /\ particles'[i].active = particles[i].active
                    /\ (lastCall'.dt > 0 =>
                           particles'[i] = g2pParticle(grid', particles[i], lastCall'.dt))
        /\ lastCall'.op = "addParticles" =>
              /\ Len(particles') >= Len(particles)
              /\ SubSeq(particles', 1, Len(particles)) = particles ]_vars

\* A positive step has moved particles of different masses.
C7_Witness ==
    /\ lastCall.op = "step" /\ lastCall.dt > 0
    /\ \E i, j \in DOMAIN particles :
          /\ i < j /\ particles[i].mass # particles[j].mass
          /\ particles[i].vel # ZeroVector3

\* C8: a neighbour offset whose lattice coordinates leave the grid on some
\* axis has weight exactly 0 and adds nothing in _particleToGrid, which adds
\* mass and momentum only to the cell whose own coordinates are baseIndex +
\* delta.
C8_OutOfRangeNeighboursIgnored ==
    \A i \in DOMAIN particles : \A k \in DOMAIN Deltas(grid) :
        LET delta == Deltas(grid)[k]
            idx == VAdd(cellPositionToIndex(grid, particles[i].pos), delta)
        IN  ~InRange(grid, idx) =>
                /\ getWeight(grid, particles[i].pos, delta) = 0
                /\ ~p2gTerm(grid, particles, i, k).valid

RECURSIVE affineSum(_, _, _)
\* The sum over the first k neighbour offsets, the valid ones, of
\* w * outer(cv, c - pos): entry (r, c) is the sum of w * cv[r] * (c - pos)[c].
affineSum(g, pos, k) ==
    IF k = 0 THEN ZeroMatrix3
    ELSE LET rest == affineSum(g, pos, k - 1)
             delta == Deltas(g)[k]
             idx == VAdd(cellPositionToIndex(g, pos), delta)
             w == getWeight(g, pos, delta)
             cv == g.data[toFlatIndex(g, idx[1], idx[2], idx[3])].vel
             d == VSub(cellIndexToPosition(g, idx[1], idx[2], idx[3]), pos)
             E(r, c) == MAt(rest, r, c) + MulDiv(cv[r] * d[c], w, WDen(g))
         IN  IF ~isValidCellIndex(g, idx[1], idx[2], idx[3])
             THEN rest
             ELSE Matrix3(E(1,1), E(1,2), E(1,3),
                          E(2,1), E(2,2), E(2,3),
                          E(3,1), E(3,2), E(3,3))

\* C9: after the grid-to-particle phase of a step, each particle's B is the
\* sum over its valid neighbour cells of w * outer(cv, c - pos), with cv the
\* cell's velocity after the grid update and pos the particle's position
\* before it is moved.
C9_AffineReconstruction ==
    [][ (lastCall'.op = "step" /\ lastCall'.dt > 0) =>
            \A i \in DOMAIN particles :
                particles'[i].B = affineSum(grid', particles[i].pos, Len(Deltas(grid'))) ]_vars

\* cellSize^2 / 4, in units 1/(One*One).
QuarterSquare(h) == (h * h) \div 4

\* C10 as stated: getDQuadratic() is diagonal, with cellSize^2/4 on x and y,
\* and on z cellSize^2/4 on a 3D grid and 0 on a 2D grid.
C10_DQuadraticZeroZ ==
    probe.fn = "getDQuadratic" =>
        probe.out = Matrix3(QuarterSquare(grid.cellSize), 0, 0,
                            0, QuarterSquare(grid.cellSize), 0,
                            0, 0, IF is2D(grid) THEN 0 ELSE QuarterSquare(grid.cellSize))

\* C10, amended: getDQuadratic() is diagonal, with cellSize^2/4 on x and y,
\* and on z cellSize^2/4 on a 3D grid and 1/4 (the z cell dimension 1.0,
\* squared, over 4) on a 2D grid.
C10_DQuadratic ==
    probe.fn = "getDQuadratic" =>
        probe.out = Matrix3(QuarterSquare(grid.cellSize), 0, 0,
                            0, QuarterSquare(grid.cellSize), 0,
                            0, 0, IF is2D(grid) THEN QuarterSquare(One)
                                               ELSE QuarterSquare(grid.cellSize))

\* getDQuadratic() has returned on a 2D grid of several cells.
C10_Witness ==
    /\ probe.fn = "getDQuadratic"
    /\ is2D(grid) /\ grid.size[1] > 1 /\ grid.size[2] > 1
    /\ grid.cellSize # One

\* The lattice coordinates of the cell of flat index f.
CellX(g, f) == f % g.size[1]
CellY(g, f) == (f \div g.size[1]) % g.size[2]
CellZ(g, f) == f \div (g.size[1] * g.size[2])

\* index i lies in the two outermost cells of an axis of n cells
InBoundaryLayer(i, n) == i < 2 \/ i >= n - 2

\* C11: after every step(dt) with dt > 0, every cell in the two outermost
\* columns has vel.x = 0, every cell in the two outermost rows has vel.y = 0,
\* on a 3D grid every cell in the two outermost layers has vel.z = 0, and
\* every cell whose accumulated mass is <= 0 has mass, momentum, velocity and
\* force all zero.
C11_NoFlowBoundaryLayer ==
    [][ (lastCall'.op = "step" /\ lastCall'.dt > 0) =>
          LET acc == particleToGrid(resetCells(grid), particles)
          IN  \A f \in DOMAIN grid'.data :
                LET c == grid'.data[f]
                IN  /\ InBoundaryLayer(CellX(grid', f), grid'.size[1]) => c.vel[1] = 0
                    /\ InBoundaryLayer(CellY(grid', f), grid'.size[2]) => c.vel[2] = 0
                    /\ (~is2D(grid') /\ InBoundaryLayer(CellZ(grid', f), grid'.size[3]))
                          => c.vel[3] = 0
                    /\ (acc.data[f].mass <= 0 \/ c.mass <= 0) => c = Cell ]_vars

\* A step with dt > 0 has just run; a cell of the boundary layer holds mass
\* and vertical momentum and has vel.y = 0; a cell off the layer moves; and a
\* cell on which the particles accumulate negative mass and nonzero momentum
\* is clear.  The grid is 2D and a cell of its single layer has vel.z # 0:
\* the z rule was not applied.
C11_Witness ==
    /\ lastCall.op = "step" /\ lastCall.dt > 0
    /\ is2D(grid) /\ \E f \in DOMAIN grid.data : grid.data[f].vel[3] # 0
    /\ \E f \in DOMAIN grid.data :
          /\ InBoundaryLayer(CellY(grid, f), grid.size[2])
          /\ grid.data[f].mass > 0 /\ grid.data[f].mv[2] # 0 /\ grid.data[f].vel[2] = 0
    /\ \E f \in DOMAIN grid.data :
          /\ ~InBoundaryLayer(CellX(grid, f), grid.size[1])
          /\ ~InBoundaryLayer(CellY(grid, f), grid.size[2])
          /\ grid.data[f].vel # ZeroVector3
    /\ LET acc == particleToGrid(resetCells(grid), particles)
       IN  \E f \in DOMAIN grid.data :
             /\ acc.data[f].mass < 0 /\ acc.data[f].mv # ZeroVector3
             /\ grid.data[f] = Cell

====
